---- MODULE Spec2Model ----
(***************************************************************************)
(* A model of the block-explorer adapters of bitcore-explorers:            *)
(*   lib/blockcypher.js  (Blockcypher: per-address fan-out, tiered fees)   *)
(*   lib/smoogs.js       (Smoogs: batch query, fee by block count)         *)
(*   models/feeestimation.js and errors.js                                 *)
(*                                                                         *)
(* JavaScript values are records with a `kind` field.  The HTTP transport  *)
(* (request), async.map, lodash and bitcore-lib are libraries outside the  *)
(* repository: the transport's answers are inputs drawn from small sets,   *)
(* the others are modelled by the behaviour the adapters rely on.          *)
(***************************************************************************)
EXTENDS Integers, Sequences, FiniteSets

VARIABLES
  defaultNetwork,  \* bitcore Networks.defaultNetwork
  adapter,         \* the constructed adapter: kind, token, url, network
  ctorArgs,        \* the arguments the adapter was constructed with
  pc,              \* "new" | "ready" | "waiting" | "done" | "crashed"
  op,              \* the operation in progress and its (normalised) arguments
  pending,         \* indices of the HTTP requests still in flight
  got,             \* index -> the response delivered for that request
  mapState,        \* async.map: results, completed, finished
  calls,           \* the invocations of the caller's callback, in order
  thrown,          \* the exceptions raised, in order
  requests         \* the HTTP requests issued on the transport, in order

vars == <<defaultNetwork, adapter, ctorArgs, pc, op, pending, got, mapState,
          calls, thrown, requests>>

(***************************************************************************)
(* Bounds of the model.                                                    *)
(***************************************************************************)
MaxAddrs == 2

MaxTarget == 8

(***************************************************************************)
(* JavaScript values.                                                      *)
(***************************************************************************)
Undefined == [kind |-> "undefined"]

Null == [kind |-> "null"]

\* A string.  URLs, paths and ids carry their text as one TLA+ string; the
\* strings the code searches or matches character by character (error texts,
\* raw transactions) carry it as a sequence of tokens.
Str(s) == [kind |-> "string", text |-> s]

Arr(items) == [kind |-> "array", items |-> items]

Err(name, message) == [kind |-> "error", name |-> name, message |-> message]

\* ToBoolean, as used by `!x`, `x || y` and `x ? a : b`.
Truthy(v) ==
  CASE v.kind \in {"undefined", "null"} -> FALSE
    [] v.kind = "string" -> Len(v.text) > 0
    [] v.kind = "number" -> v.val # 0
    [] v.kind = "nan" -> FALSE
    [] OTHER -> TRUE

\* x || y
Or(x, y) == IF Truthy(x) THEN x ELSE y

(***************************************************************************)
(* Numbers and strings.  A number is val * 10^exp; exp is 0 except for the *)
(* integers too large for a decimal rendering (>= 10^21).                  *)
(***************************************************************************)
NumE(n, e) == [kind |-> "number", val |-> n, exp |-> e]

NaN == [kind |-> "nan"]

DigitChars == <<"0", "1", "2", "3", "4", "5", "6", "7", "8", "9">>

IsDigit(c) == \E i \in 1..10 : DigitChars[i] = c

DigitValue(c) == (CHOOSE i \in 1..10 : DigitChars[i] = c) - 1

RECURSIVE Digits(_)
\* The decimal digits of a natural number.
Digits(n) ==
  IF n < 10 THEN <<DigitChars[n + 1]>>
  ELSE Append(Digits(n \div 10), DigitChars[(n % 10) + 1])

Zeros(k) == [i \in 1..k |-> "0"]

\* Number::toString for a non-negative integer val * 10^exp: plain decimal up
\* to 21 digits, exponent notation from 10^21 on.
NumberToString(n) ==
  LET ds == Digits(n.val)
      k  == Len(ds)
  IN  IF n.val = 0 THEN <<"0">>
      ELSE IF k + n.exp <= 21 THEN ds \o Zeros(n.exp)
      ELSE <<ds[1]>> \o (IF k > 1 THEN <<".">> \o SubSeq(ds, 2, k) ELSE <<>>)
             \o <<"e", "+">> \o Digits(n.exp + k - 1)

RECURSIVE DigitPrefix(_)
\* The longest prefix of digits of a sequence of characters.
DigitPrefix(cs) ==
  IF cs = <<>> \/ ~IsDigit(Head(cs)) THEN <<>>
  ELSE <<Head(cs)>> \o DigitPrefix(Tail(cs))

RECURSIVE DigitsValue(_)
DigitsValue(ds) ==
  IF ds = <<>> THEN 0
  ELSE 10 * DigitsValue(SubSeq(ds, 1, Len(ds) - 1)) + DigitValue(ds[Len(ds)])

\* parseInt(x, 10): x is converted to a string, and the digits the string
\* starts with are its value; NaN when it starts with none.
ParseInt(x) ==
  LET cs == CASE x.kind = "number" -> NumberToString(x)
              [] x.kind = "string" -> x.text
              [] OTHER -> <<"u">>
      ds == DigitPrefix(cs)
  IN  IF ds = <<>> THEN NaN ELSE NumE(DigitsValue(ds), 0)

\* x < k for a small natural k (NaN compares false).
Less(x, k) == x.kind = "number" /\ x.exp = 0 /\ x.val < k

\* x >= 0, as `withinBlocks >= 0` evaluates it on a number.
NonNegative(x) == x.kind = "number" /\ x.val >= 0

RECURSIVE Join(_)
\* The characters of a sequence as one string.
Join(cs) == IF cs = <<>> THEN "" ELSE Head(cs) \o Join(Tail(cs))

\* String.prototype.indexOf on token sequences, 0-based; -1 when absent.
IndexOf(hay, needle) ==
  LET hits == {i \in 1..(Len(hay) - Len(needle) + 1) :
                 SubSeq(hay, i, i + Len(needle) - 1) = needle}
  IN  IF hits = {} THEN -1
      ELSE (CHOOSE i \in hits : \A j \in hits : i <= j) - 1

HexChars == {"0", "1", "2", "3", "4", "5", "6", "7", "8", "9",
             "a", "b", "c", "d", "e", "f", "A", "B", "C", "D", "E", "F"}

\* The pattern without its anchors: some character is a hex digit.
IsHexaUnanchored(v) ==
  /\ v.kind = "string"
  /\ \E i \in 1..Len(v.text) : v.text[i] \in HexChars

\* JSUtil.isHexa: a string matching /^[0-9a-fA-F]+$/.
IsHexa(v) ==
  /\ v.kind = "string"
  /\ Len(v.text) > 0
  /\ \A i \in 1..Len(v.text) : v.text[i] \in HexChars

(***************************************************************************)
(* bitcore Networks, as the constructors use it.                           *)
(***************************************************************************)
Livenet == [kind |-> "network", name |-> "livenet"]

Testnet == [kind |-> "network", name |-> "testnet"]

\* Networks.get(arg): a network object, its name or an alias names a network;
\* anything else (a URL, undefined) gives undefined.
NetworksGet(arg) ==
  CASE arg = Livenet \/ arg = Str("livenet") \/ arg = Str("mainnet") -> Livenet
    [] arg = Testnet \/ arg = Str("testnet") -> Testnet
    [] OTHER -> Undefined

(***************************************************************************)
(* The constructors.                                                       *)
(***************************************************************************)
\* The endpoints with the networks exchanged.
BlockcypherUrlSwapped(network) ==
  "https://api.blockcypher.com/v1/btc/" \o
    (IF network = Testnet THEN "main" ELSE "test3")

\* blockcypher.js:32-34
BlockcypherUrl(network) ==
  "https://api.blockcypher.com/v1/btc/" \o
    (IF network = Livenet THEN "main" ELSE "test3")

\* smoogs.js:29-31
SmoogsUrl(network) ==
  "https://smoogs.io/api/" \o
    (IF network = Livenet THEN "v1" ELSE "testing") \o "/blockchain"

\* The constructor body after the no-argument redirection; `dflt` is
\* Networks.defaultNetwork.
BlockcypherFields(token, url, network, dflt) ==
  LET known == Truthy(NetworksGet(url))
      net1  == IF known THEN NetworksGet(url) ELSE network
      url1  == IF known THEN Str(BlockcypherUrl(net1)) ELSE url
  IN  [kind    |-> "Blockcypher",
       token   |-> token,
       url     |-> url1,
       network |-> Or(NetworksGet(net1), dflt)]

Blockcypher(token, url, network, dflt) ==
  IF ~Truthy(url) /\ ~Truthy(network)
  THEN BlockcypherFields(token, dflt, Undefined, dflt)
  ELSE BlockcypherFields(token, url, network, dflt)

SmoogsFields(url, network, dflt) ==
  LET known == Truthy(NetworksGet(url))
      net1  == IF known THEN NetworksGet(url) ELSE network
      url1  == IF known THEN Str(SmoogsUrl(net1)) ELSE url
  IN  [kind    |-> "Smoogs",
       token   |-> Undefined,
       url     |-> url1,
       network |-> Or(NetworksGet(net1), dflt)]

Smoogs(url, network, dflt) ==
  IF ~Truthy(url) /\ ~Truthy(network)
  THEN SmoogsFields(dflt, Undefined, dflt)
  ELSE SmoogsFields(url, network, dflt)

NoAdapter == [kind |-> "none"]

NoArgs == [kind |-> "none"]

NetworkArgs == {Undefined, Str("livenet"), Str("mainnet"), Str("testnet"),
                Livenet, Testnet}

Tokens == {Undefined, Str("tok")}

\* What a caller may pass as `url`: nothing, a network identifier, one of the
\* provider's own URLs, or the URL of another deployment.
UrlArgs(kind) ==
  NetworkArgs \cup
  (IF kind = "Blockcypher"
   THEN {Str("https://api.blockcypher.com/v1/btc/main"),
         Str("https://api.blockcypher.com/v1/btc/test3")}
   ELSE {Str("https://smoogs.io/api/v1/blockchain"),
         Str("https://smoogs.io/api/testing/blockchain")}) \cup
  {Str("http://localhost:3001")}

NewBlockcypher ==
  /\ pc = "new"
  /\ \E token \in Tokens, url \in UrlArgs("Blockcypher"), network \in NetworkArgs :
       /\ adapter' = Blockcypher(token, url, network, defaultNetwork)
       /\ ctorArgs' = [kind |-> "Blockcypher", token |-> token, url |-> url,
                       network |-> network]
  /\ pc' = "ready"
  /\ UNCHANGED <<defaultNetwork, op, pending, got, mapState, calls, thrown, requests>>

NewSmoogs ==
  /\ pc = "new"
  /\ \E url \in UrlArgs("Smoogs"), network \in NetworkArgs :
       /\ adapter' = Smoogs(url, network, defaultNetwork)
       /\ ctorArgs' = [kind |-> "Smoogs", token |-> Undefined, url |-> url,
                       network |-> network]
  /\ pc' = "ready"
  /\ UNCHANGED <<defaultNetwork, op, pending, got, mapState, calls, thrown, requests>>

NoOp == [name |-> "none"]

NoMap == [results |-> <<>>, completed |-> 0, finished |-> FALSE]

IdleOp ==
  /\ op = NoOp
  /\ pending = {}
  /\ got = <<>>
  /\ mapState = NoMap
  /\ calls = <<>>
  /\ thrown = <<>>
  /\ requests = <<>>

(***************************************************************************)
(* The transport's answers and the outcome of a handler.                   *)
(***************************************************************************)
TransportError == Err("Error", "ECONNREFUSED")

\* What request hands to its callback: (err, res, body), res.statusCode.
Response(err, statusCode, body) ==
  [err |-> err, statusCode |-> statusCode, body |-> body]

NoResp == [kind |-> "none"]

\* The response object `res`, as Smoogs passes it on.
Res(resp) == [kind |-> "response", statusCode |-> resp.statusCode, body |-> resp.body]

\* A string holding the JSON text of value v.
JsonText(v) == [kind |-> "string", text |-> <<"json">>, json |-> v]

\* JSON.parse: the value of a JSON text; any other string is a SyntaxError.
JSONparse(s) ==
  IF "json" \in DOMAIN s THEN [ok |-> TRUE, value |-> s.json] ELSE [ok |-> FALSE]

\* obj.name: undefined when the object has no such property.
Field(obj, name) == IF name \in DOMAIN obj THEN obj[name] ELSE Undefined

\* Reading a property of undefined or null is a TypeError.
HasProperties(v) == v.kind \notin {"undefined", "null"}

InvalidArgument == Err("InvalidArgument", "Invalid Argument")

SyntaxError == Err("SyntaxError", "Unexpected token")

TypeError == Err("TypeError", "Cannot read property")

\* A handler ends by calling back or by raising an exception.
Callback(err, res) == [type |-> "callback", err |-> err, res |-> res]

Throw(ex) == [type |-> "throw", ex |-> ex]

Invocation(out) == [err |-> out.err, res |-> out.res]

\* An exception raised in the caller's stack ends the call.
ThrowSync(ex) ==
  /\ thrown' = Append(thrown, [ex |-> ex, where |-> "call"])
  /\ pc' = "done"
  /\ UNCHANGED <<pending, got, mapState, calls, requests>>

\* An exception raised inside a transport callback is uncaught: the process
\* ends unless the embedding program handles it.
AfterThrow(next) == {"crashed", next}

HttpRequest(method, path) ==
  [method |-> method, url |-> adapter.url.text \o path]

(***************************************************************************)
(* Addresses (bitcore Address).                                            *)
(***************************************************************************)
LiveAddr == Str("1LiveAddr")

TestAddr == Str("mTestAddr")

BadAddr == Str("bogus")

AddressInputs == {LiveAddr, TestAddr, BadAddr}

\* new Address(data): without a network argument the network is the one the
\* string encodes; a string that does not decode raises.
AddressDecodes(a) == a \in {LiveAddr, TestAddr}

NewAddress(a) ==
  [kind |-> "address", text |-> a.text,
   network |-> IF a = LiveAddr THEN Livenet ELSE Testnet]

RECURSIVE SeqsUpTo(_, _)
SeqsUpTo(S, n) ==
  IF n = 0 THEN {<<>>}
  ELSE LET shorter == SeqsUpTo(S, n - 1)
       IN  shorter \cup {Append(q, x) : q \in shorter, x \in S}

\* `addresses`: one address or an array of them.
AddressArgs == AddressInputs \cup {Arr(q) : q \in SeqsUpTo(AddressInputs, MaxAddrs)}

(***************************************************************************)
(* Blockcypher.getUnspentUtxos                                             *)
(***************************************************************************)
BcQuery(first) ==
  IF Truthy(adapter.token) THEN first \o "token=" \o adapter.token.text ELSE ""

\* function getMaybeArray
GetMaybeArray(array) == IF array.kind = "array" THEN array.items ELSE <<>>

\* The address bitcore derives from a locking script.
ScriptAddress(script) == "addr-of-" \o script

\* function blockcypherToBitcoreOutputFormat, then Transaction.UnspentOutput
BlockcypherToBitcoreOutputFormat(output) ==
  [kind        |-> "UnspentOutput",
   txId        |-> output.tx_hash,
   outputIndex |-> output.tx_output_n,
   satoshis    |-> output.value,
   script      |-> output.script,
   address     |-> ScriptAddress(output.script)]

\* function processAddressInfoIntoOutputs: the outputs, or the exception
ProcessAddressInfoIntoOutputs(rawInfo) ==
  LET parsed == JSONparse(rawInfo)
  IN  IF ~parsed.ok THEN Throw(SyntaxError)
      ELSE IF ~HasProperties(parsed.value) THEN Throw(TypeError)
      ELSE LET txs         == GetMaybeArray(Field(parsed.value, "txrefs"))
               unconfirmed == GetMaybeArray(Field(parsed.value, "unconfirmed_txrefs"))
               all         == txs \o unconfirmed
           IN  [type  |-> "return",
                value |-> Arr([i \in 1..Len(all) |->
                                 BlockcypherToBitcoreOutputFormat(all[i])])]

\* The transport callback of _getAddress: cb(err || body), cb(null, outputs),
\* or the exception raised while processing the body.
GetAddressHandler(resp) ==
  IF Truthy(resp.err) \/ resp.statusCode # 200
  THEN Callback(Or(resp.err, resp.body), Undefined)
  ELSE LET outputs == ProcessAddressInfoIntoOutputs(resp.body)
       IN  IF outputs.type = "throw" THEN outputs
           ELSE Callback(Null, outputs.value)

RECURSIVE Flatten(_)
\* _.flatten: one level; an element that is no array stays as it is.
Flatten(results) ==
  IF results = <<>> THEN <<>>
  ELSE (IF Head(results).kind = "array" THEN Head(results).items
        ELSE <<Head(results)>>) \o Flatten(Tail(results))

\* The final callback handed to async.map.
MapFinal(err, results) ==
  IF Truthy(err) THEN [err |-> err, res |-> Undefined]
  ELSE [err |-> Null, res |-> Arr(Flatten(results))]

BcGetUnspentUtxos ==
  /\ pc = "ready" /\ adapter.kind = "Blockcypher"
  /\ \E addresses \in AddressArgs, cbOk \in BOOLEAN :
       LET list == IF addresses.kind = "array" THEN addresses.items ELSE <<addresses>>
           n    == Len(list)
       IN  /\ op' = [name |-> "getUnspentUtxos", addresses |-> list]
           /\ IF ~cbOk THEN ThrowSync(InvalidArgument)
              ELSE IF \E i \in 1..n : ~AddressDecodes(list[i])
              THEN ThrowSync(Err("Error", "Checksum mismatch"))
              ELSE /\ requests' = requests \o
                        [i \in 1..n |->
                           HttpRequest("GET", "/addrs/" \o NewAddress(list[i]).text
                                       \o "?unspentOnly=true&includeScript=true"
                                       \o BcQuery("&"))]
                   /\ pending' = 1..n
                   /\ got' = [i \in 1..n |-> NoResp]
                   /\ mapState' = [results   |-> [i \in 1..n |-> Undefined],
                                   completed |-> 0,
                                   finished  |-> n = 0]
                   /\ calls' = IF n = 0 THEN Append(calls, MapFinal(Null, <<>>))
                               ELSE calls
                   /\ pc' = IF n = 0 THEN "done" ELSE "waiting"
                   /\ UNCHANGED thrown
  /\ UNCHANGED <<defaultNetwork, adapter, ctorArgs>>

\* Well-formed output references of an address.
RefA == [tx_hash |-> "aa", tx_output_n |-> 0, value |-> 10, script |-> "s1"]

\* The same output as RefA, reported with another value.
RefA2 == [tx_hash |-> "aa", tx_output_n |-> 0, value |-> 20, script |-> "s1"]

RefB == [tx_hash |-> "bb", tx_output_n |-> 1, value |-> 30, script |-> "s2"]

AddressInfo(txrefs, unconfirmed) ==
  [kind |-> "object", txrefs |-> txrefs, unconfirmed_txrefs |-> unconfirmed]

\* The answers to GET /addrs/<address>: the body is the raw text.
AddressResponses ==
  {Response(TransportError, 0, Undefined),
   Response(Null, 404, JsonText([kind |-> "object", error |-> Str(<<"not", "found">>)])),
   Response(Null, 500, Str(<<>>)),
   Response(Null, 200, Str(<<>>)),
   Response(Null, 200, Str(<<"<html>">>)),
   Response(Null, 200, JsonText(Null)),
   Response(Null, 200, JsonText([kind |-> "object"])),
   Response(Null, 200, JsonText(AddressInfo(Arr(<<RefA>>), Undefined))),
   Response(Null, 200, JsonText(AddressInfo(Arr(<<RefA, RefB>>), Arr(<<>>)))),
   Response(Null, 200, JsonText(AddressInfo(Arr(<<RefA>>), Arr(<<RefA2>>)))),
   Response(Null, 200, JsonText(AddressInfo(Str("none"), Arr(<<RefB>>))))}

\* async.map, one iteratee callback cb(err, v) for item i: the result is
\* stored, an error ends the map at once, the last success ends it with the
\* results; the final callback runs once.
AsyncMapStep(state, i, err, v) ==
  LET results   == [state.results EXCEPT ![i] = v]
      failed    == Truthy(err)
      completed == IF failed THEN state.completed ELSE state.completed + 1
      fire      == ~state.finished /\ (failed \/ completed = Len(results))
  IN  [state |-> [results   |-> results,
                  completed |-> completed,
                  finished  |-> state.finished \/ fire],
       fire  |-> fire,
       err   |-> IF failed THEN err ELSE Null]

BcAddressResponse ==
  /\ pc = "waiting" /\ adapter.kind = "Blockcypher" /\ op.name = "getUnspentUtxos"
  /\ \E i \in pending, resp \in AddressResponses :
       LET out  == GetAddressHandler(resp)
           left == pending \ {i}
           next == IF left = {} THEN "done" ELSE "waiting"
       IN  /\ got' = [got EXCEPT ![i] = resp]
           /\ pending' = left
           /\ IF out.type = "throw"
              THEN /\ thrown' = Append(thrown, [ex |-> out.ex, where |-> "handler"])
                   /\ pc' \in AfterThrow(next)
                   /\ UNCHANGED <<mapState, calls>>
              ELSE LET step == AsyncMapStep(mapState, i, out.err, out.res)
                   IN  /\ mapState' = step.state
                       /\ calls' = IF step.fire
                                   THEN Append(calls, MapFinal(step.err, step.state.results))
                                   ELSE calls
                       /\ pc' = next
                       /\ UNCHANGED thrown
  /\ UNCHANGED <<defaultNetwork, adapter, ctorArgs, op, requests>>

(***************************************************************************)
(* Blockcypher.broadcast                                                   *)
(***************************************************************************)
\* A Transaction handle and the hex text transaction.serialize gives.
TxHandle == [kind |-> "Transaction", hex |-> <<"0", "1", "a", "F">>]

\* What a caller may pass as `transaction`.
TxInputs ==
  {Str(<<"0", "a">>), Str(<<"F", "9">>), Str(<<>>), Str(<<"0", "x">>),
   Str(<<"g">>), TxHandle, NumE(12, 0), Undefined}

AlreadyBroadcastedError(message) ==
  [kind |-> "error", name |-> "AlreadyBroadcastedError", message |-> message]

\* The handler with the test `indexOf(...) > 0`.
BcBroadcastHandlerPositive(resp) ==
  IF Truthy(resp.err) \/ resp.statusCode # 201
  THEN IF ~Truthy(resp.err)
       THEN IF ~HasProperties(resp.body) THEN Throw(TypeError)
            ELSE LET error == Field(resp.body, "error")
                 IN  IF error.kind # "string" THEN Throw(TypeError)
                     ELSE IF IndexOf(error.text, <<"already", "exists">>) > 0
                     THEN Callback(AlreadyBroadcastedError(error), Undefined)
                     ELSE Callback(Or(resp.err, resp.body), Undefined)
       ELSE Callback(Or(resp.err, resp.body), Undefined)
  ELSE IF ~Truthy(resp.body) THEN Callback(Null, Null)
       ELSE LET tx == Field(resp.body, "tx")
            IN  IF ~HasProperties(tx) THEN Throw(TypeError)
                ELSE Callback(Null, Field(tx, "hash"))

\* body.error.indexOf('already exists') > -1; a body without a string
\* `error` raises a TypeError.
BcBroadcastHandler(resp) ==
  IF Truthy(resp.err) \/ resp.statusCode # 201
  THEN IF ~Truthy(resp.err)
       THEN IF ~HasProperties(resp.body) THEN Throw(TypeError)
            ELSE LET error == Field(resp.body, "error")
                 IN  IF error.kind # "string" THEN Throw(TypeError)
                     ELSE IF IndexOf(error.text, <<"already", "exists">>) > -1
                     THEN Callback(AlreadyBroadcastedError(error), Undefined)
                     ELSE Callback(Or(resp.err, resp.body), Undefined)
       ELSE Callback(Or(resp.err, resp.body), Undefined)
  ELSE IF ~Truthy(resp.body) THEN Callback(Null, Null)
       ELSE LET tx == Field(resp.body, "tx")
            IN  IF ~HasProperties(tx) THEN Throw(TypeError)
                ELSE Callback(Null, Field(tx, "hash"))

BcBroadcast ==
  /\ pc = "ready" /\ adapter.kind = "Blockcypher"
  /\ \E transaction \in TxInputs, cbOk \in BOOLEAN :
       /\ op' = [name |-> "broadcast", transaction |-> transaction]
       /\ IF ~(IsHexa(transaction) \/ transaction.kind = "Transaction") \/ ~cbOk
          THEN ThrowSync(InvalidArgument)
          ELSE LET hex == IF transaction.kind = "Transaction"
                          THEN Str(transaction.hex) ELSE transaction
               IN  /\ requests' = Append(requests,
                         [method |-> "POST",
                          url    |-> adapter.url.text \o "/txs/push" \o BcQuery("?"),
                          json   |-> [tx |-> hex]])
                   /\ pending' = {1}
                   /\ got' = <<NoResp>>
                   /\ pc' = "waiting"
                   /\ UNCHANGED <<mapState, calls, thrown>>
  /\ UNCHANGED <<defaultNetwork, adapter, ctorArgs>>

\* The parsed bodies of a POST answer (request's json mode): nothing, a text
\* that is no JSON, or an object.
ErrorTexts ==
  {<<"already", "exists">>,
   <<"Transaction", "already", "exists", ".">>,
   <<"already", "spent", "exists">>,
   <<"Error", "validating", "transaction">>,
   <<>>}

BroadcastBodies ==
  {Undefined, Str(<<"<html>">>), [kind |-> "object"],
   [kind |-> "object", tx |-> [kind |-> "object", hash |-> Str("aa")]]}
  \cup {[kind |-> "object", error |-> Str(t)] : t \in ErrorTexts}

BroadcastResponses(ok) ==
  {Response(TransportError, 0, Undefined)} \cup
  {Response(Null, status, body) : status \in {ok, 400, 409}, body \in BroadcastBodies}

\* One-shot operations: the single response is handled and the call is over.
Deliver(resp, out) ==
  /\ got' = <<resp>>
  /\ pending' = {}
  /\ IF out.type = "throw"
     THEN /\ thrown' = Append(thrown, [ex |-> out.ex, where |-> "handler"])
          /\ pc' \in AfterThrow("done")
          /\ UNCHANGED calls
     ELSE /\ calls' = Append(calls, Invocation(out))
          /\ pc' = "done"
          /\ UNCHANGED thrown
  /\ UNCHANGED <<defaultNetwork, adapter, ctorArgs, op, mapState, requests>>

Waiting(kind, name) == pc = "waiting" /\ adapter.kind = kind /\ op.name = name

BcBroadcastResponse ==
  /\ Waiting("Blockcypher", "broadcast")
  /\ \E resp \in BroadcastResponses(201) :
       Deliver(resp, BcBroadcastHandler(resp))

(***************************************************************************)
(* Blockcypher.feeEstimation and FeeEstimation.fromBlockcypher             *)
(***************************************************************************)
\* What a caller may pass as `withinBlocks`: the integers up to MaxTarget,
\* the integer 10^21, a negative number and values that are no numbers.
Targets == {NumE(k, 0) : k \in 0..MaxTarget} \cup {NumE(1, 21)}

FeeInputs == Targets \cup {NumE(-1, 0), Str(<<"3">>), Undefined}

IsNumber(v) == v.kind \in {"number", "nan"}

FeeEstimation(withinBlocks, feePerKb) ==
  [kind |-> "FeeEstimation", withinBlocks |-> withinBlocks, feePerKb |-> feePerKb]

\* FeeEstimation.fromBlockcypher: the three tiers, or the exception.
FromBlockcypher(param) ==
  LET parsed == IF param.kind = "string" THEN JSONparse(param)
                ELSE [ok |-> TRUE, value |-> param]
  IN  IF ~parsed.ok THEN Throw(SyntaxError)
      ELSE IF ~HasProperties(parsed.value) THEN Throw(TypeError)
      ELSE [type  |-> "return",
            value |->
              [high   |-> FeeEstimation(NumE(0, 0),
                            ParseInt(Field(parsed.value, "high_fee_per_kb"))),
               medium |-> FeeEstimation(NumE(3, 0),
                            ParseInt(Field(parsed.value, "medium_fee_per_kb"))),
               low    |-> FeeEstimation(NumE(7, 0),
                            ParseInt(Field(parsed.value, "low_fee_per_kb")))]]

\* The tier for a parsed target: blockcypher.js:164-168.
SelectTier(estimation, withinBlocks) ==
  IF Less(withinBlocks, 3) THEN estimation.high
  ELSE IF Less(withinBlocks, 7) THEN estimation.medium
  ELSE estimation.low

BcFeeHandler(resp) ==
  IF Truthy(resp.err) \/ resp.statusCode # 200
  THEN Callback(Or(resp.err, resp.body), Undefined)
  ELSE LET estimation == FromBlockcypher(resp.body)
       IN  IF estimation.type = "throw"
           THEN IF estimation.ex.name = "SyntaxError"
                THEN Callback(estimation.ex, Undefined)
                ELSE estimation
           ELSE Callback(Null, SelectTier(estimation.value, op.withinBlocks))

BcFeeEstimation ==
  /\ pc = "ready" /\ adapter.kind = "Blockcypher"
  /\ \E withinBlocks \in FeeInputs, cbOk \in BOOLEAN :
       IF ~cbOk \/ ~(IsNumber(withinBlocks) /\ NonNegative(withinBlocks))
       THEN /\ op' = [name |-> "feeEstimation", target |-> withinBlocks,
                      withinBlocks |-> Undefined]
            /\ ThrowSync(InvalidArgument)
       ELSE /\ op' = [name |-> "feeEstimation", target |-> withinBlocks,
                      withinBlocks |-> ParseInt(withinBlocks)]
            /\ requests' = Append(requests, HttpRequest("GET", "/" \o BcQuery("?")))
            /\ pending' = {1}
            /\ got' = <<NoResp>>
            /\ pc' = "waiting"
            /\ UNCHANGED <<mapState, calls, thrown>>
  /\ UNCHANGED <<defaultNetwork, adapter, ctorArgs>>

Fees(high, medium, low) ==
  [kind |-> "object", high_fee_per_kb |-> high, medium_fee_per_kb |-> medium,
   low_fee_per_kb |-> low]

\* The answers to GET /: the body is the raw text.
BcFeeResponses ==
  {Response(TransportError, 0, Undefined),
   Response(Null, 429, JsonText([kind |-> "object", error |-> Str(<<"limit">>)])),
   Response(Null, 502, Str(<<>>)),
   Response(Null, 200, Str(<<>>)),
   Response(Null, 200, Str(<<"<html>">>)),
   Response(Null, 200, JsonText(Null)),
   Response(Null, 200, JsonText([kind |-> "object"])),
   Response(Null, 200, JsonText(Fees(NumE(30, 0), NumE(20, 0), NumE(10, 0))))}

BcFeeResponse ==
  /\ Waiting("Blockcypher", "feeEstimation")
  /\ \E resp \in BcFeeResponses :
       Deliver(resp, BcFeeHandler(resp))

(***************************************************************************)
(* Smoogs.getTransaction                                                   *)
(***************************************************************************)
TxId64 == Str("00112233445566778899aabbccddeeff00112233445566778899aabbccddeeff")

TxId63 == Str("00112233445566778899aabbccddeeff00112233445566778899aabbccddeef")

TxObject == [kind |-> "object", hash |-> TxId64.text]

\* new Transaction(serialized): nothing gives an empty transaction, an
\* object is read field by field, a text that is no hex raises.
NewTransaction(serialized) ==
  IF ~Truthy(serialized) THEN [type |-> "return", value |-> [kind |-> "Transaction"]]
  ELSE IF serialized.kind = "object"
  THEN [type |-> "return", value |-> [kind |-> "Transaction", from |-> serialized]]
  ELSE Throw(InvalidArgument)

SmGetTransactionHandler(resp) ==
  IF Truthy(resp.err) \/ resp.statusCode # 200
  THEN Callback(Or(resp.err, Res(resp)), Undefined)
  ELSE LET tx == NewTransaction(resp.body)
       IN  IF tx.type = "throw" THEN tx ELSE Callback(Null, tx.value)

SmGetTransaction ==
  /\ pc = "ready" /\ adapter.kind = "Smoogs"
  /\ \E txid \in {TxId64, TxId63, NumE(5, 0)}, cbOk \in BOOLEAN :
       /\ op' = [name |-> "getTransaction", txid |-> txid]
       /\ IF ~cbOk \/ txid.kind # "string" \/ Len(txid.text) # 64
          THEN ThrowSync(InvalidArgument)
          ELSE /\ requests' = Append(requests, HttpRequest("GET", "/tx/" \o txid.text))
               /\ pending' = {1}
               /\ got' = <<NoResp>>
               /\ pc' = "waiting"
               /\ UNCHANGED <<mapState, calls, thrown>>
  /\ UNCHANGED <<defaultNetwork, adapter, ctorArgs>>

\* The answers to a Smoogs GET: the body is parsed when it is JSON.
SmResponses(bodies) ==
  {Response(TransportError, 0, Undefined)} \cup
  {Response(Null, status, body) : status \in {200, 404}, body \in bodies}

SmGetTransactionResponse ==
  /\ Waiting("Smoogs", "getTransaction")
  /\ \E resp \in
         SmResponses({Undefined, Str(<<"<html>">>), TxObject}) :
       Deliver(resp, SmGetTransactionHandler(resp))

(***************************************************************************)
(* Smoogs.getUnspentUtxos                                                  *)
(***************************************************************************)
UtxoA == [kind |-> "object", txid |-> "aa", vout |-> 0, satoshis |-> 10, script |-> "s1"]

UtxoB == [kind |-> "object", txid |-> "bb", vout |-> 1, satoshis |-> 30, script |-> "s2"]

\* An object whose txid is no hex text: UnspentOutput raises a plain Error.
UtxoBadTxid == [kind |-> "object", txid |-> "zz", vout |-> 0, satoshis |-> 10, script |-> "s1"]

\* Transaction.UnspentOutput(data): the record, or the exception.
UnspentOutput(data) ==
  IF data.kind # "object" THEN Throw(InvalidArgument)
  ELSE IF data.txid \notin {"aa", "bb"} THEN Throw(Err("Error", "Invalid TXID in object"))
  ELSE [type  |-> "return",
        value |-> [kind |-> "UnspentOutput", txId |-> data.txid,
                   outputIndex |-> data.vout, satoshis |-> data.satoshis,
                   script |-> data.script, address |-> ScriptAddress(data.script)]]

\* The elements _.map visits: those of an array, the characters of a string,
\* none of undefined.
MapElements(collection) ==
  CASE collection.kind = "array" -> collection.items
    [] collection.kind = "string" -> [i \in 1..Len(collection.text) |-> Str(<<collection.text[i]>>)]
    [] OTHER -> <<>>

SmGetUnspentHandler(resp) ==
  IF Truthy(resp.err) \/ resp.statusCode # 200
  THEN Callback(Or(resp.err, Res(resp)), Undefined)
  ELSE LET elems  == MapElements(resp.body)
           mapped == [i \in 1..Len(elems) |-> UnspentOutput(elems[i])]
           bad    == {i \in 1..Len(elems) : mapped[i].type = "throw"}
           first  == CHOOSE i \in bad : \A j \in bad : i <= j
       IN  IF bad = {}
           THEN Callback(Null, Arr([i \in 1..Len(elems) |-> mapped[i].value]))
           ELSE IF mapped[first].ex.name = "InvalidArgument"
           THEN Callback(mapped[first].ex, Undefined)
           ELSE Callback(Null, resp.body)

SmGetUnspentUtxos ==
  /\ pc = "ready" /\ adapter.kind = "Smoogs"
  /\ \E addresses \in AddressArgs, cbOk \in BOOLEAN :
       LET list == IF addresses.kind = "array" THEN addresses.items ELSE <<addresses>>
           n    == Len(list)
           RECURSIVE joined(_)
           joined(i) == IF i > n THEN ""
                        ELSE NewAddress(list[i]).text \o
                             (IF i < n THEN "," ELSE "") \o joined(i + 1)
       IN  /\ op' = [name |-> "getUnspentUtxos", addresses |-> list]
           /\ IF ~cbOk THEN ThrowSync(InvalidArgument)
              ELSE IF \E i \in 1..n : ~AddressDecodes(list[i])
              THEN ThrowSync(Err("Error", "Checksum mismatch"))
              ELSE /\ requests' = Append(requests,
                         HttpRequest("GET", "/utxos?addresses=" \o joined(1)))
                   /\ pending' = {1}
                   /\ got' = <<NoResp>>
                   /\ pc' = "waiting"
                   /\ UNCHANGED <<mapState, calls, thrown>>
  /\ UNCHANGED <<defaultNetwork, adapter, ctorArgs>>

SmGetUnspentResponse ==
  /\ Waiting("Smoogs", "getUnspentUtxos")
  /\ \E resp \in
         SmResponses({Undefined, Str(<<"<html>">>), Arr(<<>>), Arr(<<UtxoA, UtxoB>>),
                      Arr(<<UtxoA, UtxoA>>), Arr(<<UtxoA, Str(<<"x">>)>>),
                      Arr(<<UtxoBadTxid, UtxoA>>)}) :
       Deliver(resp, SmGetUnspentHandler(resp))

(***************************************************************************)
(* Smoogs.broadcast                                                        *)
(***************************************************************************)
\* A handle whose checked serialization raises (transaction.serialize()).
TxHandleUnsafe == [kind |-> "Transaction", hex |-> <<>>]

SmBroadcastHandler(resp) ==
  IF Truthy(resp.err) \/ resp.statusCode # 200
  THEN Callback(Or(resp.err, resp.body), Undefined)
  ELSE Callback(Null, IF Truthy(resp.body) THEN Field(resp.body, "txid") ELSE Null)

SmBroadcast ==
  /\ pc = "ready" /\ adapter.kind = "Smoogs"
  /\ \E transaction \in TxInputs \cup {TxHandleUnsafe}, cbOk \in BOOLEAN :
       /\ op' = [name |-> "broadcast", transaction |-> transaction]
       /\ IF ~(IsHexa(transaction) \/ transaction.kind = "Transaction") \/ ~cbOk
          THEN ThrowSync(InvalidArgument)
          ELSE IF transaction = TxHandleUnsafe
          THEN ThrowSync(Err("SerializationError", "unsafe transaction"))
          ELSE LET hex == IF transaction.kind = "Transaction"
                          THEN Str(transaction.hex) ELSE transaction
               IN  /\ requests' = Append(requests,
                         [method |-> "POST",
                          url    |-> adapter.url.text \o "/broadcast",
                          json   |-> [rawtx |-> hex]])
                   /\ pending' = {1}
                   /\ got' = <<NoResp>>
                   /\ pc' = "waiting"
                   /\ UNCHANGED <<mapState, calls, thrown>>
  /\ UNCHANGED <<defaultNetwork, adapter, ctorArgs>>

SmBroadcastResponse ==
  /\ Waiting("Smoogs", "broadcast")
  /\ \E resp \in
         {Response(TransportError, 0, Undefined)} \cup
         {Response(Null, status, body) :
            status \in {200, 400},
            body \in {Undefined, Str(<<"<html>">>),
                      [kind |-> "object", txid |-> Str("aa")],
                      [kind |-> "object", error |-> Str(<<"already", "exists">>)]}} :
       Deliver(resp, SmBroadcastHandler(resp))

(***************************************************************************)
(* Smoogs.feeEstimation                                                    *)
(***************************************************************************)
\* `feePerKb` is declared below the early return: there it is undefined.
SmFeeHandler(resp) ==
  IF Truthy(resp.err) \/ resp.statusCode # 200
  THEN Callback(Or(resp.err, Undefined), Undefined)
  ELSE IF ~HasProperties(resp.body) THEN Throw(TypeError)
  ELSE Callback(Null, [kind         |-> "object",
                       withinBlocks |-> op.withinBlocks,
                       feePerKb     |-> Field(resp.body, "feePerKb")])

SmFeeEstimation ==
  /\ pc = "ready" /\ adapter.kind = "Smoogs"
  /\ \E withinBlocks \in FeeInputs, cbOk \in BOOLEAN :
       IF ~cbOk \/ ~(IsNumber(withinBlocks) /\ NonNegative(withinBlocks))
       THEN /\ op' = [name |-> "feeEstimation", target |-> withinBlocks,
                      withinBlocks |-> Undefined]
            /\ ThrowSync(InvalidArgument)
       ELSE /\ op' = [name |-> "feeEstimation", target |-> withinBlocks,
                      withinBlocks |-> ParseInt(withinBlocks)]
            /\ requests' = Append(requests,
                  HttpRequest("GET", "/fee/" \o Join(NumberToString(ParseInt(withinBlocks)))))
            /\ pending' = {1}
            /\ got' = <<NoResp>>
            /\ pc' = "waiting"
            /\ UNCHANGED <<mapState, calls, thrown>>
  /\ UNCHANGED <<defaultNetwork, adapter, ctorArgs>>

SmFeeResponse ==
  /\ Waiting("Smoogs", "feeEstimation")
  /\ \E resp \in
         SmResponses({Undefined, Str(<<"<html>">>), [kind |-> "object"],
                      [kind |-> "object", feePerKb |-> NumE(25, 0)]}) :
       Deliver(resp, SmFeeHandler(resp))

(***************************************************************************)
(* The adapters in use: one call on a constructed adapter.                 *)
(***************************************************************************)
Init ==
  /\ defaultNetwork = Livenet
  /\ \E args \in {[kind |-> "Blockcypher", token |-> t, url |-> Undefined,
                     network |-> Undefined] : t \in Tokens}
                \cup {[kind |-> "Smoogs", token |-> Undefined, url |-> Undefined,
                        network |-> Undefined]} :
       /\ ctorArgs = args
       /\ adapter = IF args.kind = "Blockcypher"
                    THEN Blockcypher(args.token, args.url, args.network, defaultNetwork)
                    ELSE Smoogs(args.url, args.network, defaultNetwork)
  /\ pc = "ready"
  /\ IdleOp

Next ==
  \/ BcGetUnspentUtxos
  \/ BcAddressResponse
  \/ BcBroadcast
  \/ BcBroadcastResponse
  \/ BcFeeEstimation
  \/ BcFeeResponse
  \/ SmGetTransaction
  \/ SmGetTransactionResponse
  \/ SmGetUnspentUtxos
  \/ SmGetUnspentResponse
  \/ SmBroadcast
  \/ SmBroadcastResponse
  \/ SmFeeEstimation
  \/ SmFeeResponse

Spec == Init /\ [][Next]_vars

InitCtor ==
  /\ defaultNetwork \in {Livenet, Testnet}
  /\ adapter = NoAdapter
  /\ ctorArgs = NoArgs
  /\ pc = "new"
  /\ IdleOp

NextCtor ==
  \/ NewBlockcypher
  \/ NewSmoogs

SpecCtor == InitCtor /\ [][NextCtor]_vars

(***************************************************************************)
(* Properties.                                                             *)
(***************************************************************************)
IsBc == adapter.kind = "Blockcypher"

Handled == {i \in 1..Len(got) : got[i] # NoResp}

\* A response that ends with a transport error or a status other than `ok`.
Failed(resp, ok) == Truthy(resp.err) \/ resp.statusCode # ok

\* The token sequence `hay` contains `needle`.
Contains(hay, needle) ==
  \E i \in 1..Len(hay) :
    i + Len(needle) - 1 <= Len(hay) /\ SubSeq(hay, i, i + Len(needle) - 1) = needle

\* The body carries an error text with 'already exists' in it.
AlreadyExistsBody(body) ==
  /\ body.kind = "object"
  /\ "error" \in DOMAIN body
  /\ Contains(body.error.text, <<"already", "exists">>)

ErrorCall(c) == Truthy(c.err) /\ c.res = Undefined

\* C1: a Blockcypher broadcast answered without transport error, with a
\* status other than 201 and an error text containing 'already exists',
\* calls back exactly once with an AlreadyBroadcastedError carrying that
\* text, with no result and without raising.
C1_AlreadyBroadcast ==
  (/\ IsBc /\ op.name = "broadcast" /\ Handled = {1}
   /\ ~Truthy(got[1].err) /\ got[1].statusCode # 201
   /\ AlreadyExistsBody(got[1].body))
  => /\ thrown = <<>>
     /\ calls = <<[err |-> [kind    |-> "error",
                            name    |-> "AlreadyBroadcastedError",
                            message |-> got[1].body.error],
                   res |-> Undefined]>>

C1_Witness ==
  /\ IsBc /\ op.name = "broadcast" /\ Handled = {1}
  /\ got[1].statusCode = 409
  /\ AlreadyExistsBody(got[1].body)
  /\ got[1].body.error.text = <<"already", "exists">>
  /\ Len(calls) = 1
  /\ calls[1].err.name = "AlreadyBroadcastedError"

\* Inputs of broadcast that are neither hex text nor a Transaction handle.
NotATransaction ==
  {Str(<<>>), Str(<<"0", "x">>), Str(<<"g">>), NumE(12, 0), Undefined}

\* C7: in both adapters, broadcast of an input that is neither hex text nor
\* a Transaction handle raises InvalidArgument in the caller's stack, and no
\* HTTP request has been issued and no callback made.
C7_RejectBeforeRequest ==
  (op.name = "broadcast" /\ op.transaction \in NotATransaction)
  => /\ thrown = <<[ex |-> InvalidArgument, where |-> "call"]>>
     /\ requests = <<>>
     /\ calls = <<>>
     /\ pc = "done"

C7_Witness ==
  /\ adapter.kind = "Smoogs"
  /\ op.name = "broadcast" /\ op.transaction = Str(<<"0", "x">>)
  /\ thrown # <<>> /\ thrown[1].ex.name = "InvalidArgument"
  /\ requests = <<>>

\* The URL each provider documents for a network.
CanonicalUrl(kind, network) ==
  CASE kind = "Blockcypher" /\ network = Livenet ->
         Str("https://api.blockcypher.com/v1/btc/main")
    [] kind = "Blockcypher" /\ network = Testnet ->
         Str("https://api.blockcypher.com/v1/btc/test3")
    [] kind = "Smoogs" /\ network = Livenet ->
         Str("https://smoogs.io/api/v1/blockchain")
    [] kind = "Smoogs" /\ network = Testnet ->
         Str("https://smoogs.io/api/testing/blockchain")

\* The identifiers of a network: its object, its name and its aliases.
NetworkIds(network) ==
  IF network = Livenet THEN {Livenet, Str("livenet"), Str("mainnet")}
  ELSE {Testnet, Str("testnet")}

Construct(kind, token, url, network) ==
  IF kind = "Blockcypher" THEN Blockcypher(token, url, network, defaultNetwork)
  ELSE Smoogs(url, network, defaultNetwork)

\* C9: an adapter constructed from a bare network identifier has the base
\* URL and the network of the adapter constructed with the provider's
\* canonical URL for that network together with that network; constructed
\* with neither, it has the configuration of the default network.
C9_BareNetworkRoundTrip ==
  pc = "ready" =>
    /\ \A n \in {Livenet, Testnet} :
         (ctorArgs.url \in NetworkIds(n) /\ ctorArgs.network = Undefined)
         => /\ adapter.network = n
            /\ \A m \in NetworkIds(n) :
                 LET explicit == Construct(ctorArgs.kind, ctorArgs.token,
                                           CanonicalUrl(ctorArgs.kind, n), m)
                 IN  /\ adapter.url = explicit.url
                     /\ adapter.network = explicit.network
    /\ (ctorArgs.url = Undefined /\ ctorArgs.network = Undefined)
       => /\ adapter.network = defaultNetwork
          /\ adapter.url = CanonicalUrl(ctorArgs.kind, defaultNetwork)

C9_Witness ==
  /\ pc = "ready"
  /\ ctorArgs.kind = "Blockcypher"
  /\ ctorArgs.url = Str("testnet") /\ ctorArgs.network = Undefined
  /\ defaultNetwork = Livenet
  /\ adapter.url = Str("https://api.blockcypher.com/v1/btc/test3")
  /\ adapter.network = Testnet

IsFanOut == IsBc /\ op.name = "getUnspentUtxos"

\* C2: in a Blockcypher getUnspentUtxos over several addresses, once the
\* fetch of one address has failed (transport error or status other than
\* 200), the caller has been called back with that failure, and no callback
\* ever carries an output list.
C2_FailFast ==
  (/\ IsFanOut /\ Len(op.addresses) >= 2
   /\ \E i \in Handled : Failed(got[i], 200))
  => /\ Len(calls) >= 1
     /\ \A k \in 1..Len(calls) : ErrorCall(calls[k])

\* The references of one address-info body, an absent or non-list field
\* counting as empty.
BodyRefs(body) ==
  LET info == body.json
      refs(f) == IF f \in DOMAIN info /\ info[f].kind = "array" THEN info[f].items
                 ELSE <<>>
  IN  refs("txrefs") \o refs("unconfirmed_txrefs")

\* C3: the list a successful Blockcypher getUnspentUtxos returns holds every
\* reference of every response, and no two of its records have the same
\* (txId, outputIndex).
C3_UnionDeduplicated ==
  (/\ IsFanOut /\ Len(calls) = 1 /\ calls[1].res.kind = "array"
   /\ \A i \in Handled : ~Failed(got[i], 200))
  => LET list == calls[1].res.items
     IN  /\ \A i \in Handled :
              \A r \in 1..Len(BodyRefs(got[i].body)) :
                \E k \in 1..Len(list) :
                  /\ list[k].txId = BodyRefs(got[i].body)[r].tx_hash
                  /\ list[k].outputIndex = BodyRefs(got[i].body)[r].tx_output_n
         /\ \A j, k \in 1..Len(list) :
              (list[j].txId = list[k].txId /\ list[j].outputIndex = list[k].outputIndex)
              => j = k

\* The value val * 10^exp of a target is below the small natural k.
ValueBelow(n, k) == n.val = 0 \/ (n.exp = 0 /\ n.val < k)

\* C4: Blockcypher.feeEstimation with an integer target N >= 0 and a
\* response carrying the three fees returns the tier of 0 blocks and the
\* high fee for N < 3, of 3 blocks and the medium fee for 3 <= N < 7, and of
\* 7 blocks and the low fee for N >= 7.
C4_TierBoundaries ==
  (/\ IsBc /\ op.name = "feeEstimation" /\ op.target \in Targets
   /\ Handled = {1}
   /\ got[1] = Response(Null, 200, JsonText(Fees(NumE(30, 0), NumE(20, 0), NumE(10, 0)))))
  => /\ Len(calls) = 1
     /\ calls[1].err = Null
     /\ calls[1].res =
          (IF ValueBelow(op.target, 3) THEN FeeEstimation(NumE(0, 0), NumE(30, 0))
           ELSE IF ValueBelow(op.target, 7) THEN FeeEstimation(NumE(3, 0), NumE(20, 0))
           ELSE FeeEstimation(NumE(7, 0), NumE(10, 0)))

\* The status an operation takes for success.
SuccessStatus == IF IsBc /\ op.name = "broadcast" THEN 201 ELSE 200

\* C5: in every operation of both adapters, once a response with a
\* transport error or a non-success status has been handled (a broadcast
\* body saying 'already exists' aside), the caller has been called back
\* with a non-empty failure value and no result, and a one-shot operation
\* has raised nothing.
C5_DefiniteFailure ==
  (/\ op.name # "none"
   /\ \E i \in Handled :
        /\ Failed(got[i], SuccessStatus)
        /\ ~(IsBc /\ op.name = "broadcast" /\ ~Truthy(got[i].err)
             /\ AlreadyExistsBody(got[i].body)))
  => /\ Len(calls) >= 1
     /\ \A k \in 1..Len(calls) : ErrorCall(calls[k])
     /\ (~IsFanOut => thrown = <<>>)

\* A text body that is no JSON.
Unparsable(body) == body.kind = "string" /\ "json" \notin DOMAIN body

\* C6: in getUnspentUtxos and feeEstimation, when every response handled
\* has status 200 and one of them has a body that is no JSON, the caller has
\* been called back once with an error object (the parse error, not the raw
\* body) and no result.
C6_MalformedResponse ==
  (/\ op.name \in {"getUnspentUtxos", "feeEstimation"}
   /\ \A i \in Handled : ~Failed(got[i], 200)
   /\ \E i \in Handled : Unparsable(got[i].body))
  => /\ Len(calls) = 1
     /\ calls[1].err.kind = "error"
     /\ calls[1].res = Undefined

\* C8: in both adapters, getUnspentUtxos of an empty address list, or of a
\* list holding an address of another network than the adapter's, raises
\* InvalidArgument; no request is issued and no list is returned.
C8_RejectAddresses ==
  (/\ op.name = "getUnspentUtxos"
   /\ \/ op.addresses = <<>>
      \/ \E i \in 1..Len(op.addresses) :
           /\ AddressDecodes(op.addresses[i])
           /\ NewAddress(op.addresses[i]).network # adapter.network)
  => /\ thrown # <<>>
     /\ thrown[1].ex.name = "InvalidArgument"
     /\ requests = <<>>
     /\ calls = <<>>

\* C10: one Blockcypher getUnspentUtxos calls back at most once; it has
\* called back exactly once when every response has been handled; and from
\* the first failed response on, that one callback is the failure, with no
\* result list.
C10_ExactlyOnce ==
  IsFanOut =>
    /\ Len(calls) <= 1
    /\ (pc = "done" /\ \A e \in 1..Len(thrown) : thrown[e].where # "call")
       => Len(calls) = 1
    /\ (\E i \in Handled : Failed(got[i], 200))
       => (Len(calls) = 1 /\ ErrorCall(calls[1]))

(***************************************************************************)
(* What the fan-out and the tier selection do guarantee.                   *)
(***************************************************************************)
\* A response whose failure value is non-empty, or whose 200 body is a JSON
\* object.
Definite(resp) ==
  IF Failed(resp, 200) THEN Truthy(Or(resp.err, resp.body))
  ELSE "json" \in DOMAIN resp.body /\ resp.body.json.kind = "object"

\* On such responses the fan-out calls back exactly once, fails fast and
\* delivers no partial list.
FanOutOnDefiniteResponses ==
  (\A i \in Handled : Definite(got[i])) => (C2_FailFast /\ C10_ExactlyOnce)

\* For the targets with a plain decimal rendering the tiers are the claimed
\* ones.
TierBoundariesDecimal ==
  (op.name = "feeEstimation" /\ op.target \in Targets /\ op.target.exp = 0)
  => C4_TierBoundaries

====
